---- MODULE Spec2Model ----
(***************************************************************************)
(* Model of the hash-linked ledgers of the credit-risk analyzer:           *)
(*   backend/blockchain_integration.py  CreditBlockchain (credit-score and *)
(*                                      transaction ledgers, verify log)   *)
(*   backend/simple_blockchain_demo.py  SimpleBlockchain (credit_blocks)   *)
(*   backend/deep_learning_model.py     CreditModelBlockchain              *)
(*                                                                         *)
(* Python strings are TLA+ strings.  SHA-256 is symbolic: the hex digest   *)
(* of s is the string "sha256(" s ")", so two digests are equal exactly    *)
(* when their inputs are equal (collision freedom), and a digest can be    *)
(* concatenated into further hash inputs as the code does.                 *)
(***************************************************************************)
EXTENDS Integers, Sequences, FiniteSets, TLC

\* ------------------------------------------------------------ bounds
MaxBlocks == 3        \* blocks over all ledgers together
MaxLog == 2           \* rows of blockchain_verification_log
MaxRows == 4          \* blocks and log rows together
MaxInputLen == 60     \* length of the strings handed to proof_of_work alone
MaxLeaves == 5        \* leaves of the lists handed to calculate_merkle_root alone
Seconds == {0, 1}     \* the clock values the model lets pass

\* ------------------------------------------------------------ program constants
difficulty == 4
max_nonce == 1000000

\* ------------------------------------------------------------ inputs
CreditPayloads ==
    { [user_id |-> 1, credit_score |-> 720, model_version |-> "v1",
       prediction_confidence |-> "0.91", risk_factors |-> <<"high_debt_ratio">>],
      [user_id |-> 2, credit_score |-> 650, model_version |-> "v1",
       prediction_confidence |-> "0.8", risk_factors |-> <<>>] }

TransactionPayloads ==
    { [user_id |-> 1, transaction_type |-> "loan", amount |-> 100] }

\* SimpleBlockchain: a prediction dict is its items in insertion order, each a
\* key and the JSON text of its value
SimplePayloads ==
    { [user_id |-> 1, credit_score |-> 700,
       prediction_data |-> << <<"credit_score", "700">>, <<"blockchain_verified", "true">> >>] }

PredictionDicts == { p.prediction_data : p \in SimplePayloads }

\* the keys of prediction dicts in sorted order (sort_keys=True)
SortedKeys == <<"blockchain_verified", "credit_score", "decision">>

ModelPayloads ==
    { [model_version |-> "v2.0_deep_learning", accuracy |-> "0.85",
       training_data_hash |-> "sha256(15000)"] }

UserIds == {1, 2}

RiskFactorLists == { p.risk_factors : p \in CreditPayloads }

\* ------------------------------------------------------------ hashing and text
Last(s) == s[Len(s)]

\* hashlib.sha256(s.encode()).hexdigest(), symbolic and injective
sha256(s) == "sha256(" \o s \o ")"

\* "0" * n
RECURSIVE zeros(_)
zeros(n) == IF n = 0 THEN "" ELSE "0" \o zeros(n - 1)

\* The clock counts whole seconds and is read on the second.
\* datetime.now().isoformat(): 'YYYY-MM-DDTHH:MM:SS' (no fraction is printed
\* when the microsecond is 0)
isoformat(t) == "2026-01-01T00:00:0" \o ToString(t)

\* SQLite's DEFAULT CURRENT_TIMESTAMP: 'YYYY-MM-DD HH:MM:SS'
CURRENT_TIMESTAMP(t) == "2026-01-01 00:00:0" \o ToString(t)

\* json.dumps of a list of strings
RECURSIVE json_items(_)
json_items(l) ==
    IF l = <<>> THEN ""
    ELSE "\"" \o l[1] \o "\"" \o (IF Len(l) = 1 THEN "" ELSE ", ") \o json_items(Tail(l))

json_dumps_list(l) == "[" \o json_items(l) \o "]"

\* json.loads of a stored risk_factors text: the list whose JSON text it is.
\* json.loads raises on any other text (json_loads_raises).
json_loads_raises(s) == \A l \in RiskFactorLists : json_dumps_list(l) # s

json_loads_list(s) == CHOOSE l \in RiskFactorLists : json_dumps_list(l) = s

\* json.dumps(block_data, sort_keys=True) of the credit-score block_data
credit_block_json(user_id, credit_score, model_version, prediction_confidence, risk_factors, previous_hash, timestamp) ==
    "{\"credit_score\": " \o ToString(credit_score) \o
    ", \"model_version\": \"" \o model_version \o
    "\", \"prediction_confidence\": " \o prediction_confidence \o
    ", \"previous_hash\": \"" \o previous_hash \o
    "\", \"risk_factors\": " \o json_dumps_list(risk_factors) \o
    ", \"timestamp\": \"" \o timestamp \o
    "\", \"user_id\": " \o ToString(user_id) \o "}"

\* json.dumps of a float with a whole-number value (amounts are such floats)
float_json(x) == ToString(x) \o ".0"

\* json.dumps(transaction_data, sort_keys=True)
transaction_json(user_id, transaction_type, amount, timestamp) ==
    "{\"amount\": " \o float_json(amount) \o
    ", \"timestamp\": \"" \o timestamp \o
    "\", \"transaction_type\": \"" \o transaction_type \o
    "\", \"user_id\": " \o ToString(user_id) \o "}"

\* ------------------------------------------------------------ Merkle root
\* mutant of merkle_level: each pair is hashed right leaf first
RECURSIVE merkle_level_right_left(_)
merkle_level_right_left(txs) ==
    IF txs = <<>> THEN <<>>
    ELSE IF Len(txs) = 1 THEN << sha256(txs[1] \o txs[1]) >>
    ELSE << sha256(txs[2] \o txs[1]) >> \o merkle_level_right_left(SubSeq(txs, 3, Len(txs)))

\* mutant of merkle_level: a last leaf without a partner is hashed alone
RECURSIVE merkle_level_odd_leaf_alone(_)
merkle_level_odd_leaf_alone(txs) ==
    IF txs = <<>> THEN <<>>
    ELSE IF Len(txs) = 1 THEN << sha256(txs[1]) >>
    ELSE << sha256(txs[1] \o txs[2]) >> \o merkle_level_odd_leaf_alone(SubSeq(txs, 3, Len(txs)))

\* the for loop of calculate_merkle_root: next_level of the list txs
RECURSIVE merkle_level(_)
merkle_level(txs) ==
    IF txs = <<>> THEN <<>>
    ELSE IF Len(txs) = 1 THEN << sha256(txs[1] \o txs[1]) >>
    ELSE << sha256(txs[1] \o txs[2]) >> \o merkle_level(SubSeq(txs, 3, Len(txs)))

\* mutant of calculate_merkle_root: a single leaf is the root as it stands
RECURSIVE calculate_merkle_root_leaf_as_root(_)
calculate_merkle_root_leaf_as_root(transactions) ==
    IF transactions = <<>> THEN sha256("")
    ELSE IF Len(transactions) = 1 THEN transactions[1]
    ELSE calculate_merkle_root_leaf_as_root(merkle_level(transactions))

RECURSIVE calculate_merkle_root(_)
calculate_merkle_root(transactions) ==
    IF transactions = <<>> THEN sha256("")
    ELSE IF Len(transactions) = 1 THEN sha256(transactions[1])
    ELSE calculate_merkle_root(merkle_level(transactions))

\* ------------------------------------------------------------ proof of work
\* The number of leading zero hex digits of sha256(block_data + str(nonce)).
\* The digest itself is symbolic, so its leading digits are given by a fixed
\* function of the hashed input.  The function has period NoncePeriod in the
\* nonce, and for some inputs no nonce reaches the target.
NoncePeriod == 6

leading_zeros(block_data, nonce) ==
    ((Len(block_data) % 4) * (nonce + 2)) % NoncePeriod

hash_meets_target(block_data, nonce) == leading_zeros(block_data, nonce) >= difficulty

\* The while loop of proof_of_work from `nonce` on, `attempts` digests having
\* been computed before: the nonce it returns and the digests it computed.
\* Once the nonces of a whole period have failed, every later nonce fails as
\* well, so the loop runs on to the cap: its result is given without
\* unrolling the remaining iterations.
RECURSIVE pow_search(_, _, _)
pow_search(block_data, nonce, attempts) ==
    IF hash_meets_target(block_data, nonce)
    THEN [nonce |-> nonce, attempts |-> attempts + 1]
    ELSE IF nonce + 1 > max_nonce
    THEN [nonce |-> nonce + 1, attempts |-> attempts + 1]
    ELSE IF attempts + 1 >= NoncePeriod
    THEN [nonce |-> max_nonce + 1, attempts |-> attempts + 1 + (max_nonce - nonce)]
    ELSE pow_search(block_data, nonce + 1, attempts + 1)

\* mutant of proof_of_work: the search starts at nonce 1
proof_of_work_from_one(block_data) == pow_search(block_data, 1, 0).nonce

proof_of_work(block_data) == pow_search(block_data, 0, 0).nonce

\* the number of digests one call of proof_of_work computes
proof_of_work_attempts(block_data) == pow_search(block_data, 0, 0).attempts

\* ------------------------------------------------------------ state
VARIABLES
    tables,            \* table name -> its rows in id order
    verification_log,  \* rows of blockchain_verification_log in id order
    clock,             \* the system clock, in seconds
    ret,               \* what the last handler returned (or that it raised)
    txn,               \* worker -> the append it has in flight, between its
                       \* SELECT of the tip and its INSERT
    tampered           \* the one stored field changed behind the program's
                       \* back, if any: its table, row and column

vars == <<tables, verification_log, clock, ret, txn, tampered>>

CreditTable == "credit_score_blockchain"
TransactionTable == "transaction_blockchain"
ModelVersionTable == "model_version_blockchain"
PredictionAuditTable == "prediction_audit_blockchain"
SimpleTable == "credit_blocks"
ModelTable == "model_blockchain"

TableNames == {CreditTable, TransactionTable, ModelVersionTable,
               PredictionAuditTable, SimpleTable, ModelTable}

RECURSIVE SumLen(_, _)
SumLen(f, S) ==
    IF S = {} THEN 0
    ELSE LET x == CHOOSE y \in S : TRUE IN Len(f[x]) + SumLen(f, S \ {x})

TotalBlocks == SumLen(tables, TableNames)

\* the bounds leave room for n more blocks / n more log rows
RoomForBlocks(n) ==
    /\ TotalBlocks + n <= MaxBlocks
    /\ TotalBlocks + n + Len(verification_log) <= MaxRows

RoomForLogRows(n) ==
    /\ Len(verification_log) + n <= MaxLog
    /\ TotalBlocks + Len(verification_log) + n <= MaxRows

\* mutant of tip_hash: the query without DESC, which reads the oldest row
tip_hash_oldest_row(blocks, sentinel) ==
    IF blocks = <<>> THEN sentinel ELSE blocks[1].block_hash

\* mutant of tip_hash: the tip is read from the transaction table for every ledger
tip_hash_of_transaction_table(blocks, sentinel) ==
    IF tables[TransactionTable] = <<>> THEN sentinel
    ELSE Last(tables[TransactionTable]).block_hash

\* SELECT block_hash FROM <table> ORDER BY id DESC LIMIT 1, else the sentinel
tip_hash(blocks, sentinel) ==
    IF blocks = <<>> THEN sentinel ELSE Last(blocks).block_hash

\* cursor.execute(INSERT ...); conn.commit().  block_hash is UNIQUE: an INSERT
\* of a hash the table holds raises.  outcome is what the storage does:
\* "ok", "insert_error" (execute raises) or "commit_error" (commit raises and
\* the connection is dropped with its transaction uncommitted).
StorageOutcomes == {"ok", "insert_error", "commit_error"}

\* mutant of execute_insert: a failed commit leaves the inserted row behind
execute_insert_no_rollback(blocks, row, outcome) ==
    IF outcome = "ok" /\ \A i \in DOMAIN blocks : blocks[i].block_hash # row.block_hash
    THEN [raised |-> FALSE, rows |-> Append(blocks, row)]
    ELSE [raised |-> TRUE,
          rows |-> IF outcome = "commit_error" THEN Append(blocks, row) ELSE blocks]

\* mutant of execute_insert: INSERT OR REPLACE, which overwrites the newest row
execute_insert_or_replace(blocks, row, outcome) ==
    IF outcome = "ok" /\ \A i \in DOMAIN blocks : blocks[i].block_hash # row.block_hash
    THEN [raised |-> FALSE,
          rows |-> IF blocks = <<>> THEN <<row>> ELSE [blocks EXCEPT ![Len(blocks)] = row]]
    ELSE [raised |-> TRUE, rows |-> blocks]

\* mutant of execute_insert: block_hash without its UNIQUE constraint
execute_insert_without_unique(blocks, row, outcome) ==
    IF outcome = "ok"
    THEN [raised |-> FALSE, rows |-> Append(blocks, row)]
    ELSE [raised |-> TRUE, rows |-> blocks]

execute_insert(blocks, row, outcome) ==
    IF outcome = "ok" /\ \A i \in DOMAIN blocks : blocks[i].block_hash # row.block_hash
    THEN [raised |-> FALSE, rows |-> Append(blocks, row)]
    ELSE [raised |-> TRUE, rows |-> blocks]

\* ------------------------------------------------------------ CreditBlockchain
\* add_credit_score_block up to the INSERT: the values bound to the statement
credit_score_block(blocks, p, now) ==
    LET previous_hash == tip_hash(blocks, zeros(64))
        block_json == credit_block_json(p.user_id, p.credit_score, p.model_version,
                          p.prediction_confidence, p.risk_factors, previous_hash,
                          isoformat(now))
        merkle_root == calculate_merkle_root(<<block_json>>)
        block_string == block_json \o merkle_root
        nonce == proof_of_work(block_string)
    IN  [block_hash |-> sha256(block_string \o ToString(nonce)),
         previous_hash |-> previous_hash,
         user_id |-> p.user_id,
         credit_score |-> p.credit_score,
         model_version |-> p.model_version,
         prediction_confidence |-> p.prediction_confidence,
         risk_factors |-> json_dumps_list(p.risk_factors),
         merkle_root |-> merkle_root,
         nonce |-> nonce]

\* the string add_credit_score_block hands to proof_of_work
credit_score_block_string(blocks, p, now) ==
    LET block_json == credit_block_json(p.user_id, p.credit_score, p.model_version,
                          p.prediction_confidence, p.risk_factors,
                          tip_hash(blocks, zeros(64)), isoformat(now))
    IN  block_json \o calculate_merkle_root(<<block_json>>)

\* the columns the INSERT leaves to their defaults
credit_score_row(values, now) ==
    values @@ [timestamp |-> CURRENT_TIMESTAMP(now), miner_id |-> "system",
               block_size |-> 0, verified |-> TRUE]

\* add_transaction_block up to the INSERT
transaction_block(blocks, p, now) ==
    LET previous_hash == tip_hash(blocks, zeros(64))
        transaction_hash ==
            sha256(transaction_json(p.user_id, p.transaction_type, p.amount, isoformat(now)))
        merkle_root == calculate_merkle_root(<<transaction_hash>>)
        block_string == previous_hash \o transaction_hash \o merkle_root
        nonce == proof_of_work(block_string)
    IN  [block_hash |-> sha256(block_string \o ToString(nonce)),
         previous_hash |-> previous_hash,
         user_id |-> p.user_id,
         transaction_type |-> p.transaction_type,
         amount |-> p.amount,
         transaction_hash |-> transaction_hash,
         merkle_root |-> merkle_root,
         nonce |-> nonce]

transaction_row(values, now) ==
    values @@ [timestamp |-> CURRENT_TIMESTAMP(now), verified |-> TRUE]

Returned(op, kind, value) == [op |-> op, kind |-> kind, status |-> "ok", value |-> value]
Raised(op, kind) == [op |-> op, kind |-> kind, status |-> "error", value |-> "sqlite3.Error"]

\* the exception an add_*_block handler lets through: execute raises
\* sqlite3.IntegrityError (a sqlite3.Error) when the table holds the row's
\* block_hash, and the storage's own error otherwise
append_error(table, row, outcome) ==
    IF outcome # "insert_error"
       /\ \E i \in DOMAIN tables[table] : tables[table][i].block_hash = row.block_hash
    THEN [op |-> "append", kind |-> table, status |-> "error",
          value |-> "sqlite3.IntegrityError"]
    ELSE Raised("append", table)

\* mutant of AppendCall: the handler returns previous_hash instead of block_hash
AppendCall_returns_previous_hash(table, row, outcome) ==
    LET res == execute_insert(tables[table], row, outcome)
    IN  /\ tables' = [tables EXCEPT ![table] = res.rows]
        /\ ret' = IF res.raised THEN append_error(table, row, outcome)
                  ELSE Returned("append", table, row.previous_hash)
        /\ UNCHANGED <<verification_log, clock, txn, tampered>>

\* one whole call of an add_*_block handler on `table`
AppendCall(table, row, outcome) ==
    LET res == execute_insert(tables[table], row, outcome)
    IN  /\ tables' = [tables EXCEPT ![table] = res.rows]
        /\ ret' = IF res.raised THEN append_error(table, row, outcome)
                  ELSE Returned("append", table, row.block_hash)
        /\ UNCHANGED <<verification_log, clock, txn, tampered>>

add_credit_score_block(p, outcome) ==
    /\ RoomForBlocks(1)
    /\ AppendCall(CreditTable,
                  credit_score_row(credit_score_block(tables[CreditTable], p, clock), clock),
                  outcome)

add_transaction_block(p, outcome) ==
    /\ RoomForBlocks(1)
    /\ AppendCall(TransactionTable,
                  transaction_row(transaction_block(tables[TransactionTable], p, clock), clock),
                  outcome)

\* ------------------------------------------------------------ verify
\* mutant of verify_single_block: the nonce must meet the difficulty target too
verify_single_block_checks_difficulty(block, blockchain_type) ==
    IF blockchain_type = "credit_score"
    THEN IF json_loads_raises(block.risk_factors) THEN FALSE
         ELSE LET block_json == credit_block_json(block.user_id, block.credit_score,
                                    block.model_version, block.prediction_confidence,
                                    json_loads_list(block.risk_factors),
                                    block.previous_hash, block.timestamp)
                  block_string == block_json \o block.merkle_root
              IN  /\ hash_meets_target(block_string, block.nonce)
                  /\ sha256(block_string \o ToString(block.nonce)) = block.block_hash
    ELSE IF blockchain_type = "transaction"
    THEN LET block_string == block.previous_hash \o block.transaction_hash \o block.merkle_root
         IN  /\ hash_meets_target(block_string, block.nonce)
             /\ sha256(block_string \o ToString(block.nonce)) = block.block_hash
    ELSE FALSE

\* _verify_single_block: the block's hash recomputed from its stored columns
verify_single_block(block, blockchain_type) ==
    IF blockchain_type = "credit_score"
    THEN IF json_loads_raises(block.risk_factors) THEN FALSE
         ELSE LET block_json == credit_block_json(block.user_id, block.credit_score,
                                    block.model_version, block.prediction_confidence,
                                    json_loads_list(block.risk_factors),
                                    block.previous_hash, block.timestamp)
                  block_string == block_json \o block.merkle_root
              IN  sha256(block_string \o ToString(block.nonce)) = block.block_hash
    ELSE IF blockchain_type = "transaction"
    THEN LET block_string == block.previous_hash \o block.transaction_hash \o block.merkle_root
         IN  sha256(block_string \o ToString(block.nonce)) = block.block_hash
    ELSE FALSE

\* the linkage test of the loop body: TRUE when the loop breaks at index i
linkage_breaks(blocks, i, blockchain_type) ==
    /\ i > 1
    /\ blockchain_type \in {"credit_score", "transaction"}
    /\ blocks[i].previous_hash # blocks[i - 1].block_hash

\* mutant of verify_loop: the linkage test comes before the hash check, so the
\* block with the broken link is not tallied
RECURSIVE verify_loop_break_before_tally(_, _, _, _)
verify_loop_break_before_tally(blocks, blockchain_type, i, verified_blocks) ==
    IF linkage_breaks(blocks, i, blockchain_type)
    THEN [verified_blocks |-> verified_blocks, last_index |-> i]
    ELSE LET v == IF verify_single_block(blocks[i], blockchain_type)
                  THEN verified_blocks + 1 ELSE verified_blocks
         IN  IF i = Len(blocks)
             THEN [verified_blocks |-> v, last_index |-> i]
             ELSE verify_loop_break_before_tally(blocks, blockchain_type, i + 1, v)

\* the for loop of verify_blockchain_integrity from (1-based) index i on:
\* verified_blocks when the loop ends, and the last index it examined
RECURSIVE verify_loop(_, _, _, _)
verify_loop(blocks, blockchain_type, i, verified_blocks) ==
    LET v == IF verify_single_block(blocks[i], blockchain_type)
             THEN verified_blocks + 1 ELSE verified_blocks
    IN  IF linkage_breaks(blocks, i, blockchain_type) \/ i = Len(blocks)
        THEN [verified_blocks |-> v, last_index |-> i]
        ELSE verify_loop(blocks, blockchain_type, i + 1, v)

\* a Python float that is the quotient of two small integers, kept exact
RECURSIVE gcd(_, _)
gcd(a, b) == IF b = 0 THEN a ELSE gcd(b, a % b)

float_div(a, b) == [num |-> a \div gcd(a, b), den |-> b \div gcd(a, b)]

ONE == [num |-> 1, den |-> 1]

float_repr(x) == ToString(x.num) \o "/" \o ToString(x.den)

\* mutant of table_map: a name the map does not hold falls back to the
\* transaction table
table_map_default_transactions(blockchain_type) ==
    CASE blockchain_type = "credit_score" -> CreditTable
      [] blockchain_type = "transaction" -> TransactionTable
      [] blockchain_type = "model_version" -> ModelVersionTable
      [] blockchain_type = "prediction_audit" -> PredictionAuditTable
      [] OTHER -> TransactionTable

\* table_map.get(blockchain_type, 'credit_score_blockchain')
table_map(blockchain_type) ==
    CASE blockchain_type = "credit_score" -> CreditTable
      [] blockchain_type = "transaction" -> TransactionTable
      [] blockchain_type = "model_version" -> ModelVersionTable
      [] blockchain_type = "prediction_audit" -> PredictionAuditTable
      [] OTHER -> CreditTable

\* mutant of empty_chain_result: no rows scored as 0 / 0 blocks verified
empty_chain_result_scored_zero ==
    [valid |-> FALSE, total_blocks |-> 0, verified_blocks |-> 0,
     integrity_score |-> [num |-> 0, den |-> 1]]

\* the early return of verify_blockchain_integrity on a table with no rows
empty_chain_result ==
    [valid |-> TRUE, total_blocks |-> 0, verified_blocks |-> 0, integrity_score |-> ONE]

\* mutant of count_total_blocks: only the rows up to the first broken link
count_blocks_up_to_break(blocks) ==
    IF \E i \in 2..Len(blocks) : blocks[i].previous_hash # blocks[i - 1].block_hash
    THEN CHOOSE i \in 2..Len(blocks) :
             /\ blocks[i].previous_hash # blocks[i - 1].block_hash
             /\ \A j \in 2..(i - 1) : blocks[j].previous_hash = blocks[j - 1].block_hash
    ELSE Len(blocks)

\* total_blocks of a verify pass over the rows it read
count_total_blocks(blocks) == Len(blocks)

\* the counts of a verify pass over a table with rows
integrity_counts(blocks, blockchain_type) ==
    LET verified_blocks == verify_loop(blocks, blockchain_type, 1, 0).verified_blocks
        total_blocks == count_total_blocks(blocks)
        integrity_score == IF total_blocks > 0 THEN float_div(verified_blocks, total_blocks)
                           ELSE ONE
    IN  [valid |-> integrity_score = ONE,
         total_blocks |-> total_blocks,
         verified_blocks |-> verified_blocks,
         integrity_score |-> integrity_score]

\* json.dumps(verification_data, sort_keys=True), hashed
verification_hash(blockchain_type, counts, now) ==
    sha256("{\"blockchain_type\": \"" \o blockchain_type \o
           "\", \"integrity_score\": " \o float_repr(counts.integrity_score) \o
           ", \"timestamp\": \"" \o isoformat(now) \o
           "\", \"total_blocks\": " \o ToString(counts.total_blocks) \o
           ", \"verified_blocks\": " \o ToString(counts.verified_blocks) \o "}")

verification_log_row(blockchain_type, counts, now) ==
    [blockchain_type |-> blockchain_type,
     total_blocks |-> counts.total_blocks,
     verified_blocks |-> counts.verified_blocks,
     integrity_score |-> counts.integrity_score,
     verification_timestamp |-> CURRENT_TIMESTAMP(now),
     verification_hash |-> verification_hash(blockchain_type, counts, now)]

\* what verify_blockchain_integrity returns for the rows it read
verify_result(blocks, blockchain_type, now) ==
    IF blocks = <<>> THEN empty_chain_result
    ELSE LET counts == integrity_counts(blocks, blockchain_type)
         IN  counts @@ [verification_hash |-> verification_hash(blockchain_type, counts, now)]

\* mutant of log_after_verify: a pass over no rows is logged as well
log_after_verify_logs_empty_pass(log, blocks, blockchain_type, now) ==
    IF blocks = <<>> THEN Append(log, verification_log_row(blockchain_type, empty_chain_result, now))
    ELSE Append(log, verification_log_row(blockchain_type,
                         integrity_counts(blocks, blockchain_type), now))

\* the verification log after a pass: a pass over no rows returns before it logs
log_after_verify(log, blocks, blockchain_type, now) ==
    IF blocks = <<>> THEN log
    ELSE Append(log, verification_log_row(blockchain_type,
                         integrity_counts(blocks, blockchain_type), now))

BlockchainTypes == {"credit_score", "transaction", "model_version", "prediction_audit", "unknown"}

verify_blockchain_integrity(blockchain_type) ==
    LET blocks == tables[table_map(blockchain_type)]
    IN  /\ blocks = <<>> \/ RoomForLogRows(1)
        /\ ret' = Returned("verify", blockchain_type, verify_result(blocks, blockchain_type, clock))
        /\ verification_log' = log_after_verify(verification_log, blocks, blockchain_type, clock)
        /\ UNCHANGED <<tables, clock, txn, tampered>>

\* ------------------------------------------------------------ history
\* the stored timestamps CURRENT_TIMESTAMP writes compare as text in time order
timestamp_key(ts) == CHOOSE t \in Seconds : CURRENT_TIMESTAMP(t) = ts

\* ORDER BY timestamp DESC over the rows with indices in I: every order of I
\* with no row before one of a later timestamp (rows of equal timestamp come
\* in an order SQLite does not fix)
rows_by_timestamp_desc(blocks, I) ==
    { order \in [1..Cardinality(I) -> I] :
        /\ \A a, b \in 1..Cardinality(I) : a # b => order[a] # order[b]
        /\ \A a, b \in 1..Cardinality(I) :
              a < b => timestamp_key(blocks[order[a]].timestamp)
                         >= timestamp_key(blocks[order[b]].timestamp) }

credit_history_entry(block) ==
    [block_hash |-> block.block_hash,
     credit_score |-> block.credit_score,
     model_version |-> block.model_version,
     prediction_confidence |-> block.prediction_confidence,
     risk_factors |-> json_loads_list(block.risk_factors),
     timestamp |-> block.timestamp,
     blockchain_verified |-> block.verified]

get_user_credit_history(user_id) ==
    LET blocks == tables[CreditTable]
        I == { i \in DOMAIN blocks : blocks[i].user_id = user_id }
    IN  /\ \E order \in rows_by_timestamp_desc(blocks, I) :
              ret' = IF \E i \in I : json_loads_raises(blocks[i].risk_factors)
                     THEN Raised("history", "credit_score")
                     ELSE Returned("history", "credit_score",
                              [user_id |-> user_id,
                               history |-> [n \in 1..Cardinality(I) |->
                                               credit_history_entry(blocks[order[n]])]])
        /\ UNCHANGED <<tables, verification_log, clock, txn, tampered>>

\* ------------------------------------------------------------ statistics
RECURSIVE sum_column(_, _)
sum_column(blocks, col) ==
    IF blocks = <<>> THEN 0 ELSE blocks[1][col] + sum_column(Tail(blocks), col)

\* p / q rounded to the nearest integer (p, q > 0)
round_div(p, q) == (2 * p + q) \div (2 * q)

\* the sum of the integrity scores of the log rows, as a fraction
RECURSIVE sum_scores(_)
sum_scores(rows) ==
    IF rows = <<>> THEN [num |-> 0, den |-> 1]
    ELSE LET rest == sum_scores(Tail(rows))
             x == rows[1].integrity_score
         IN  [num |-> x.num * rest.den + rest.num * x.den, den |-> x.den * rest.den]

\* round(AVG(credit_score), 2), in hundredths; 0 when AVG is NULL or 0
average_credit_score(blocks) ==
    IF blocks = <<>> \/ sum_column(blocks, "credit_score") = 0 THEN 0
    ELSE round_div(100 * sum_column(blocks, "credit_score"), Len(blocks))

\* round(SUM(amount), 2), in hundredths; 0 when SUM is NULL or 0
total_transaction_volume(blocks) ==
    IF blocks = <<>> THEN 0 ELSE 100 * sum_column(blocks, "amount")

\* SELECT blockchain_type, AVG(integrity_score), COUNT(*) ... GROUP BY
\* blockchain_type, the average rounded to 4 places (in ten-thousandths)
verification_history(log) ==
    { LET rows == SelectSeq(log, LAMBDA r : r.blockchain_type = ty)
          total == sum_scores(rows)
      IN  [blockchain_type |-> ty,
           average_integrity_score |->
               IF total.num = 0 THEN 0
               ELSE round_div(10000 * total.num, total.den * Len(rows)),
           verification_count |-> Len(rows)]
      : ty \in { log[i].blockchain_type : i \in DOMAIN log } }

\* mutant of blockchain_statistics: both counts taken from the credit-score table
blockchain_statistics_one_count ==
    [credit_blockchain |->
         [total_blocks |-> Len(tables[CreditTable]),
          average_credit_score |-> average_credit_score(tables[CreditTable])],
     transaction_blockchain |->
         [total_blocks |-> Len(tables[CreditTable]),
          total_transaction_volume |-> total_transaction_volume(tables[TransactionTable])],
     verification_history |-> verification_history(verification_log)]

blockchain_statistics ==
    [credit_blockchain |->
         [total_blocks |-> Len(tables[CreditTable]),
          average_credit_score |-> average_credit_score(tables[CreditTable])],
     transaction_blockchain |->
         [total_blocks |-> Len(tables[TransactionTable]),
          total_transaction_volume |-> total_transaction_volume(tables[TransactionTable])],
     verification_history |-> verification_history(verification_log)]

get_blockchain_statistics ==
    /\ ret' = Returned("statistics", "", blockchain_statistics)
    /\ UNCHANGED <<tables, verification_log, clock, txn, tampered>>

\* ------------------------------------------------------------ health check
\* integrity_score >= 0.95
health_status(integrity_score) ==
    IF 100 * integrity_score.num >= 95 * integrity_score.den THEN "healthy" ELSE "degraded"

\* mutant of HealthTypes: the second kind checked is the model-version ledger
HealthTypes_without_transactions == <<"credit_score", "model_version">>

\* blockchain_types of blockchain_health_check, in the order of its loop
HealthTypes == <<"credit_score", "transaction">>

blockchain_health_check ==
    LET b1 == tables[table_map(HealthTypes[1])]
        b2 == tables[table_map(HealthTypes[2])]
        v1 == verify_result(b1, HealthTypes[1], clock)
        log1 == log_after_verify(verification_log, b1, HealthTypes[1], clock)
        v2 == verify_result(b2, HealthTypes[2], clock)
        log2 == log_after_verify(log1, b2, HealthTypes[2], clock)
        status == [ty \in {HealthTypes[1], HealthTypes[2]} |->
                      LET v == IF ty = HealthTypes[1] THEN v1 ELSE v2
                      IN  [status |-> health_status(v.integrity_score),
                           integrity_score |-> v.integrity_score,
                           total_blocks |-> v.total_blocks]]
    IN  /\ RoomForLogRows(Len(log2) - Len(verification_log))
        /\ verification_log' = log2
        /\ ret' = Returned("health", "",
                     [overall_status |->
                          IF \A ty \in DOMAIN status : status[ty].status = "healthy"
                          THEN "healthy" ELSE "degraded",
                      blockchain_health |-> status])
        /\ UNCHANGED <<tables, clock, txn, tampered>>

\* ------------------------------------------------------------ SimpleBlockchain
RECURSIVE json_dict_items(_)
json_dict_items(d) ==
    IF d = <<>> THEN ""
    ELSE "\"" \o d[1][1] \o "\": " \o d[1][2] \o
         (IF Len(d) = 1 THEN "" ELSE ", ") \o json_dict_items(Tail(d))

\* json.dumps(prediction_data): the items in insertion order
json_dumps_dict(d) == "{" \o json_dict_items(d) \o "}"

\* the items of d in sorted key order
sort_keys(d) ==
    LET present == SelectSeq(SortedKeys, LAMBDA k : \E i \in DOMAIN d : d[i][1] = k)
    IN  [n \in DOMAIN present |-> d[CHOOSE i \in DOMAIN d : d[i][1] = present[n]]]

json_loads_dict_raises(s) == \A d \in PredictionDicts : json_dumps_dict(d) # s

json_loads_dict(s) == CHOOSE d \in PredictionDicts : json_dumps_dict(d) = s

\* json.dumps(block_data, sort_keys=True) of the simple ledger's block_data
simple_block_json(user_id, credit_score, prediction_data, previous_hash, timestamp) ==
    "{\"credit_score\": " \o ToString(credit_score) \o
    ", \"prediction_data\": " \o json_dumps_dict(sort_keys(prediction_data)) \o
    ", \"previous_hash\": \"" \o previous_hash \o
    "\", \"timestamp\": \"" \o timestamp \o
    "\", \"user_id\": " \o ToString(user_id) \o "}"

simple_block(blocks, p, now) ==
    LET previous_hash == tip_hash(blocks, zeros(64))
    IN  [block_hash |-> sha256(simple_block_json(p.user_id, p.credit_score,
                                  p.prediction_data, previous_hash, isoformat(now))),
         previous_hash |-> previous_hash,
         user_id |-> p.user_id,
         credit_score |-> p.credit_score,
         prediction_data |-> json_dumps_dict(p.prediction_data)]

simple_row(values, now) ==
    values @@ [timestamp |-> CURRENT_TIMESTAMP(now), verified |-> TRUE]

add_credit_block(p, outcome) ==
    /\ RoomForBlocks(1)
    /\ AppendCall(SimpleTable,
                  simple_row(simple_block(tables[SimpleTable], p, clock), clock), outcome)

simple_block_verifies(block) ==
    sha256(simple_block_json(block.user_id, block.credit_score,
               json_loads_dict(block.prediction_data), block.previous_hash,
               block.timestamp)) = block.block_hash

\* the for loop of SimpleBlockchain.verify_blockchain from index i on; json.loads
\* is not guarded there, so a row whose prediction_data is no JSON ends the call
RECURSIVE simple_verify_loop(_, _, _)
simple_verify_loop(blocks, i, verified_blocks) ==
    IF json_loads_dict_raises(blocks[i].prediction_data)
    THEN [raised |-> TRUE, verified_blocks |-> verified_blocks, last_index |-> i]
    ELSE LET v == IF simple_block_verifies(blocks[i])
                  THEN verified_blocks + 1 ELSE verified_blocks
         IN  IF (i > 1 /\ blocks[i].previous_hash # blocks[i - 1].block_hash) \/ i = Len(blocks)
             THEN [raised |-> FALSE, verified_blocks |-> v, last_index |-> i]
             ELSE simple_verify_loop(blocks, i + 1, v)

simple_verify_result(blocks) ==
    IF blocks = <<>> THEN empty_chain_result
    ELSE LET verified_blocks == simple_verify_loop(blocks, 1, 0).verified_blocks
             total_blocks == count_total_blocks(blocks)
             integrity_score == IF total_blocks > 0
                                THEN float_div(verified_blocks, total_blocks) ELSE ONE
         IN  [valid |-> integrity_score = ONE,
              total_blocks |-> total_blocks,
              verified_blocks |-> verified_blocks,
              integrity_score |-> integrity_score]

verify_blockchain ==
    LET blocks == tables[SimpleTable]
    IN  /\ ret' = IF blocks # <<>> /\ simple_verify_loop(blocks, 1, 0).raised
                  THEN Raised("verify", "simple")
                  ELSE Returned("verify", "simple", simple_verify_result(blocks))
        /\ UNCHANGED <<tables, verification_log, clock, txn, tampered>>

\* ------------------------------------------------------------ CreditModelBlockchain
\* json.dumps(block_data, sort_keys=True) of the model ledger's block_data
model_block_json(model_version, accuracy, training_data_hash, previous_hash, timestamp) ==
    "{\"accuracy\": " \o accuracy \o
    ", \"model_version\": \"" \o model_version \o
    "\", \"previous_hash\": \"" \o previous_hash \o
    "\", \"timestamp\": \"" \o timestamp \o
    "\", \"training_data_hash\": \"" \o training_data_hash \o "\"}"

\* the previous_hash add_model_block gives the first block
model_genesis_hash == "0"

model_block(blocks, p, now) ==
    LET previous_hash == tip_hash(blocks, model_genesis_hash)
    IN  [block_hash |-> sha256(model_block_json(p.model_version, p.accuracy,
                                  p.training_data_hash, previous_hash, isoformat(now))),
         previous_hash |-> previous_hash,
         model_version |-> p.model_version,
         accuracy |-> p.accuracy,
         training_data_hash |-> p.training_data_hash]

model_row(values, now) ==
    values @@ [timestamp |-> CURRENT_TIMESTAMP(now), verified |-> TRUE]

add_model_block(p, outcome) ==
    /\ RoomForBlocks(1)
    /\ AppendCall(ModelTable,
                  model_row(model_block(tables[ModelTable], p, clock), clock), outcome)

model_block_verifies(block) ==
    sha256(model_block_json(block.model_version, block.accuracy, block.training_data_hash,
               block.previous_hash, block.timestamp)) = block.block_hash

\* CreditModelBlockchain.verify_blockchain_integrity: the bool it returns
RECURSIVE model_verify_loop(_, _)
model_verify_loop(blocks, i) ==
    IF ~model_block_verifies(blocks[i]) THEN FALSE
    ELSE IF i > 1 /\ blocks[i].previous_hash # blocks[i - 1].block_hash THEN FALSE
    ELSE IF i = Len(blocks) THEN TRUE
    ELSE model_verify_loop(blocks, i + 1)

model_verify_result(blocks) ==
    IF blocks = <<>> THEN TRUE ELSE model_verify_loop(blocks, 1)

verify_model_blockchain ==
    /\ ret' = Returned("verify", "model", model_verify_result(tables[ModelTable]))
    /\ UNCHANGED <<tables, verification_log, clock, txn, tampered>>

Tick ==
    /\ clock + 1 \in Seconds
    /\ clock' = clock + 1
    /\ UNCHANGED <<tables, verification_log, ret, txn, tampered>>

\* ------------------------------------------------------------ overlapping appends
\* Two callers of add_credit_score_block / add_transaction_block on the same
\* database (threads or server workers).  Each call reads the tip and builds
\* its block on its own connection, and later executes its INSERT and commits;
\* nothing in the code orders one call's steps against another's.
Workers == {1, 2}
Idle == [pc |-> "idle"]

begin_add_credit_score_block(w, p) ==
    /\ txn[w] = Idle
    /\ RoomForBlocks(1 + Cardinality({v \in Workers : txn[v] # Idle}))
    /\ txn' = [txn EXCEPT ![w] =
                  [pc |-> "insert", table |-> CreditTable,
                   values |-> credit_score_block(tables[CreditTable], p, clock)]]
    /\ UNCHANGED <<tables, verification_log, clock, ret, tampered>>

begin_add_transaction_block(w, p) ==
    /\ txn[w] = Idle
    /\ RoomForBlocks(1 + Cardinality({v \in Workers : txn[v] # Idle}))
    /\ txn' = [txn EXCEPT ![w] =
                  [pc |-> "insert", table |-> TransactionTable,
                   values |-> transaction_block(tables[TransactionTable], p, clock)]]
    /\ UNCHANGED <<tables, verification_log, clock, ret, tampered>>

finish_add_block(w, outcome) ==
    /\ txn[w].pc = "insert"
    /\ LET table == txn[w].table
           row == IF table = CreditTable THEN credit_score_row(txn[w].values, clock)
                  ELSE transaction_row(txn[w].values, clock)
           res == execute_insert(tables[table], row, outcome)
       IN  /\ tables' = [tables EXCEPT ![table] = res.rows]
           /\ ret' = IF res.raised THEN append_error(table, row, outcome)
                     ELSE Returned("append", table, row.block_hash)
    /\ txn' = [txn EXCEPT ![w] = Idle]
    /\ UNCHANGED <<verification_log, clock, tampered>>

\* ------------------------------------------------------------ proof of work, step by step
\* add_credit_score_block with the while loop of proof_of_work taken one
\* iteration at a time.  self.difficulty is an attribute of the object: the
\* calls are made under its value 4, under 0 (every digest qualifies) and
\* under 65 (no digest of 64 hex characters qualifies).
Difficulties == {0, difficulty, 65}

\* the payload of the calls whose loop is followed step by step
LivePayloads == { p \in CreditPayloads : p.user_id = 1 }

\* mutant of pow_iteration: at the cap the search starts again from nonce 0
pow_iteration_restarts_at_cap(block_data, target_zeros, nonce, attempts) ==
    IF leading_zeros(block_data, nonce) >= target_zeros
    THEN [done |-> TRUE, nonce |-> nonce, attempts |-> attempts + 1]
    ELSE IF nonce + 1 > max_nonce
    THEN [done |-> FALSE, nonce |-> 0, attempts |-> 0]
    ELSE IF attempts + 1 >= NoncePeriod
    THEN [done |-> FALSE, nonce |-> max_nonce, attempts |-> attempts + (max_nonce - nonce)]
    ELSE [done |-> FALSE, nonce |-> nonce + 1, attempts |-> attempts + 1]

\* One iteration of the while loop: whether the loop is left, and the nonce
\* and the count of digests after it.  Once the nonces of a whole period have
\* failed the iterations up to the last one fail as well; they are taken as
\* one, which leaves the loop at its last iteration, nonce = 1000000.
pow_iteration(block_data, target_zeros, nonce, attempts) ==
    IF leading_zeros(block_data, nonce) >= target_zeros
    THEN [done |-> TRUE, nonce |-> nonce, attempts |-> attempts + 1]
    ELSE IF nonce + 1 > max_nonce
    THEN [done |-> TRUE, nonce |-> nonce + 1, attempts |-> attempts + 1]
    ELSE IF attempts + 1 >= NoncePeriod
    THEN [done |-> FALSE, nonce |-> max_nonce, attempts |-> attempts + (max_nonce - nonce)]
    ELSE [done |-> FALSE, nonce |-> nonce + 1, attempts |-> attempts + 1]

\* add_credit_score_block up to the call of proof_of_work
begin_proof_of_work(w, p, target_zeros) ==
    /\ txn[w] = Idle
    /\ RoomForBlocks(1 + Cardinality({v \in Workers : txn[v] # Idle}))
    /\ txn' = [txn EXCEPT ![w] =
                  [pc |-> "pow", table |-> CreditTable,
                   values |-> credit_score_block(tables[CreditTable], p, clock),
                   block_string |-> credit_score_block_string(tables[CreditTable], p, clock),
                   target_zeros |-> target_zeros, nonce |-> 0, attempts |-> 0]]
    /\ UNCHANGED <<tables, verification_log, clock, ret, tampered>>

\* one iteration of the loop; when the loop is left, the block hash is taken
\* over the nonce it returned
proof_of_work_step(w) ==
    /\ txn[w].pc = "pow"
    /\ LET it == pow_iteration(txn[w].block_string, txn[w].target_zeros,
                               txn[w].nonce, txn[w].attempts)
       IN  txn' = [txn EXCEPT ![w] =
                      IF it.done
                      THEN [pc |-> "insert", table |-> txn[w].table,
                            values |-> [txn[w].values EXCEPT
                                           !.nonce = it.nonce,
                                           !.block_hash = sha256(txn[w].block_string
                                                                  \o ToString(it.nonce))],
                            target_zeros |-> txn[w].target_zeros,
                            attempts |-> it.attempts]
                      ELSE [txn[w] EXCEPT !.nonce = it.nonce, !.attempts = it.attempts]]
    /\ UNCHANGED <<tables, verification_log, clock, ret, tampered>>

\* ------------------------------------------------------------ tampering
\* A stored column of one row is changed outside the program (an UPDATE on the
\* SQLite file): a number becomes another number, a flag flips, a text
\* becomes another text.
Untampered == [done |-> FALSE]

NumberColumns == {"user_id", "credit_score", "nonce", "block_size", "amount"}

changed_value(column, v) ==
    IF column \in NumberColumns THEN v + 1
    ELSE IF column = "verified" THEN ~v
    ELSE v \o "9"

Tamper(table, i, column) ==
    /\ ~tampered.done
    /\ i \in DOMAIN tables[table]
    /\ column \in DOMAIN tables[table][i]
    /\ tables' = [tables EXCEPT ![table][i][column] = changed_value(column, @)]
    /\ tampered' = [done |-> TRUE, table |-> table, index |-> i, column |-> column]
    /\ ret' = [op |-> "tamper", kind |-> table, status |-> "ok", value |-> ""]
    /\ UNCHANGED <<verification_log, clock, txn>>

AllColumns ==
    {"block_hash", "previous_hash", "user_id", "credit_score", "model_version",
     "prediction_confidence", "risk_factors", "merkle_root", "nonce", "timestamp",
     "miner_id", "block_size", "verified", "transaction_type", "amount",
     "transaction_hash", "prediction_data"}

\* ------------------------------------------------------------ rows of the other two kinds
\* model_version_blockchain and prediction_audit_blockchain are created by
\* _init_blockchain_tables and read by verify_blockchain_integrity, but no
\* method of the class writes them: their rows come from an INSERT made on
\* the database directly.  Such a row is linked to the table's newest row and
\* sealed as the other kinds are, its block_hash the digest of its
\* previous_hash, its content columns and its nonce.
ExternalNonces == {0, 1}

model_version_row(blocks, nonce, now) ==
    LET previous_hash == tip_hash(blocks, zeros(64))
    IN  [block_hash |-> sha256(previous_hash \o "v1.0" \o "sha256(data)" \o "sha256(algo)"
                               \o ToString(nonce)),
         previous_hash |-> previous_hash,
         model_version |-> "v1.0",
         accuracy |-> "0.9",
         training_data_hash |-> "sha256(data)",
         algorithm_hash |-> "sha256(algo)",
         deployment_timestamp |-> CURRENT_TIMESTAMP(now),
         nonce |-> nonce,
         verified |-> TRUE]

prediction_audit_row(blocks, nonce, now) ==
    LET previous_hash == tip_hash(blocks, zeros(64))
    IN  [block_hash |-> sha256(previous_hash \o "sha256(input)" \o "sha256(prediction)"
                               \o "sha256(model)" \o ToString(nonce)),
         previous_hash |-> previous_hash,
         user_id |-> 1,
         input_data_hash |-> "sha256(input)",
         prediction_hash |-> "sha256(prediction)",
         model_hash |-> "sha256(model)",
         prediction_timestamp |-> CURRENT_TIMESTAMP(now),
         auditor_signature |-> "",
         nonce |-> nonce,
         verified |-> TRUE]

\* INSERT INTO model_version_blockchain from outside the class
insert_model_version_row(nonce) ==
    LET res == execute_insert(tables[ModelVersionTable],
                              model_version_row(tables[ModelVersionTable], nonce, clock), "ok")
    IN  /\ RoomForBlocks(1)
        /\ tables' = [tables EXCEPT ![ModelVersionTable] = res.rows]
        /\ ret' = [op |-> "insert", kind |-> ModelVersionTable,
                   status |-> IF res.raised THEN "error" ELSE "ok", value |-> ""]
        /\ UNCHANGED <<verification_log, clock, txn, tampered>>

\* INSERT INTO prediction_audit_blockchain from outside the class
insert_prediction_audit_row(nonce) ==
    LET res == execute_insert(tables[PredictionAuditTable],
                              prediction_audit_row(tables[PredictionAuditTable], nonce, clock), "ok")
    IN  /\ RoomForBlocks(1)
        /\ tables' = [tables EXCEPT ![PredictionAuditTable] = res.rows]
        /\ ret' = [op |-> "insert", kind |-> PredictionAuditTable,
                   status |-> IF res.raised THEN "error" ELSE "ok", value |-> ""]
        /\ UNCHANGED <<verification_log, clock, txn, tampered>>

Init ==
    /\ tables = [t \in TableNames |-> <<>>]
    /\ verification_log = <<>>
    /\ clock = 0
    /\ ret = [op |-> "none", kind |-> "", status |-> "ok", value |-> ""]
    /\ txn = [w \in Workers |-> Idle]
    /\ tampered = Untampered

Next ==
    \/ \E p \in CreditPayloads, o \in StorageOutcomes : add_credit_score_block(p, o)
    \/ \E p \in TransactionPayloads, o \in StorageOutcomes : add_transaction_block(p, o)
    \/ \E k \in BlockchainTypes : verify_blockchain_integrity(k)
    \/ \E u \in UserIds : get_user_credit_history(u)
    \/ get_blockchain_statistics
    \/ blockchain_health_check
    \/ Tick

\* CreditBlockchain, its handlers called one after another
Spec == Init /\ [][Next]_vars

\* all four ledgers, calls one after another
NextLedgers ==
    \/ \E p \in CreditPayloads, o \in StorageOutcomes : add_credit_score_block(p, o)
    \/ \E p \in TransactionPayloads, o \in StorageOutcomes : add_transaction_block(p, o)
    \/ \E p \in SimplePayloads, o \in StorageOutcomes : add_credit_block(p, o)
    \/ \E p \in ModelPayloads, o \in StorageOutcomes : add_model_block(p, o)
    \/ \E k \in BlockchainTypes : verify_blockchain_integrity(k)
    \/ verify_blockchain
    \/ verify_model_blockchain
    \/ Tick

SpecLedgers == Init /\ [][NextLedgers]_vars

\* CreditBlockchain with appends of two callers overlapping
NextConc ==
    \/ \E w \in Workers, p \in CreditPayloads : begin_add_credit_score_block(w, p)
    \/ \E w \in Workers, p \in TransactionPayloads : begin_add_transaction_block(w, p)
    \/ \E w \in Workers, o \in StorageOutcomes : finish_add_block(w, o)
    \/ \E k \in {"credit_score", "transaction"} : verify_blockchain_integrity(k)
    \/ Tick

SpecConc == Init /\ [][NextConc]_vars

\* CreditBlockchain and SimpleBlockchain with one stored column changed
\* behind the program's back
NextTamper ==
    \/ \E p \in CreditPayloads : add_credit_score_block(p, "ok")
    \/ \E p \in TransactionPayloads : add_transaction_block(p, "ok")
    \/ \E p \in SimplePayloads : add_credit_block(p, "ok")
    \/ \E t \in {CreditTable, TransactionTable, SimpleTable}, i \in 1..MaxBlocks,
          c \in AllColumns : Tamper(t, i, c)
    \/ \E k \in {"credit_score", "transaction"} : verify_blockchain_integrity(k)
    \/ verify_blockchain

SpecTamper == Init /\ [][NextTamper]_vars

\* verify_blockchain_integrity on the model-version and prediction-audit tables
NextAudit ==
    \/ \E n \in ExternalNonces : insert_model_version_row(n)
    \/ \E n \in ExternalNonces : insert_prediction_audit_row(n)
    \/ \E k \in {"model_version", "prediction_audit"} : verify_blockchain_integrity(k)
    \/ Tick

SpecAudit == Init /\ [][NextAudit]_vars

\* ------------------------------------------------------------ proof_of_work alone
\* proof_of_work as a function of its argument: the strings it is called on
PowInputs == { zeros(n) : n \in 1..MaxInputLen }

InitPow ==
    /\ tables = [t \in TableNames |-> <<>>]
    /\ verification_log = <<>>
    /\ clock = 0
    /\ \E block_data \in PowInputs :
           ret = [op |-> "input", kind |-> "proof_of_work", status |-> "ok",
                  value |-> block_data]
    /\ txn = [w \in Workers |-> Idle]
    /\ tampered = Untampered

\* one call of proof_of_work: the nonce it returns and the digests it computed
call_proof_of_work ==
    /\ ret.op = "input"
    /\ ret' = Returned("proof_of_work", ret.value,
                  [nonce |-> proof_of_work(ret.value),
                   attempts |-> proof_of_work_attempts(ret.value)])
    /\ UNCHANGED <<tables, verification_log, clock, txn, tampered>>

NextPow == call_proof_of_work

SpecPow == InitPow /\ [][NextPow]_vars

\* ------------------------------------------------------------ calculate_merkle_root alone
\* calculate_merkle_root as a function of its argument: the lists it is called on
Leaves == {"a", "b", "c"}

MerkleInputs == UNION { [1..n -> Leaves] : n \in 0..MaxLeaves }

InitMerkle ==
    /\ tables = [t \in TableNames |-> <<>>]
    /\ verification_log = <<>>
    /\ clock = 0
    /\ \E transactions \in MerkleInputs :
           ret = [op |-> "input", kind |-> "calculate_merkle_root", status |-> "ok",
                  value |-> transactions]
    /\ txn = [w \in Workers |-> Idle]
    /\ tampered = Untampered

\* one call of calculate_merkle_root
call_calculate_merkle_root ==
    /\ ret.op = "input"
    /\ ret' = Returned("calculate_merkle_root", ret.value, calculate_merkle_root(ret.value))
    /\ UNCHANGED <<tables, verification_log, clock, txn, tampered>>

NextMerkle == call_calculate_merkle_root

SpecMerkle == InitMerkle /\ [][NextMerkle]_vars

\* add_credit_score_block calls with the proof-of-work loop step by step; a
\* call that has started keeps running until it returns or raises
NextLive ==
    \/ \E w \in Workers, p \in LivePayloads, d \in Difficulties : begin_proof_of_work(w, p, d)
    \/ \E w \in Workers : proof_of_work_step(w)
    \/ \E w \in Workers, o \in StorageOutcomes : finish_add_block(w, o)

FairLive ==
    \A w \in Workers :
        /\ WF_vars(proof_of_work_step(w))
        /\ WF_vars(\E o \in StorageOutcomes : finish_add_block(w, o))

SpecLive == Init /\ [][NextLive]_vars /\ FairLive

\* ------------------------------------------------------------ properties
GenesisSentinel == zeros(64)

\* the table a verify call reported by ret read
VerifiedTable(kind) == IF kind = "simple" THEN SimpleTable ELSE table_map(kind)

\* ret is the result of a counting verify (CreditBlockchain or SimpleBlockchain)
IsVerifyResult ==
    /\ ret.op = "verify"
    /\ ret.status = "ok"
    /\ ret.kind # "model"

\* the index at which the scan behind ret ended
LastExamined ==
    IF ret.kind = "simple"
    THEN simple_verify_loop(tables[SimpleTable], 1, 0).last_index
    ELSE verify_loop(tables[table_map(ret.kind)], ret.kind, 1, 0).last_index

IsPrefix(s, t) == Len(s) <= Len(t) /\ SubSeq(t, 1, Len(s)) = s

\* C1: after any sequence of appends into an empty credit-score ledger, with
\* no stored field altered, verify returns valid=true and integrity_score=1.0.
C1_VerifyValidAfterAppends ==
    (ret.op = "verify" /\ ret.kind = "credit_score")
        => (ret.value.valid /\ ret.value.integrity_score = ONE)

\* C2: after sequential appends, every block other than the first has
\* previous_hash equal to the block_hash of the block before it in id order.
C2_ChainLinked ==
    \A t \in TableNames :
        \A i \in 2..Len(tables[t]) :
            tables[t][i].previous_hash = tables[t][i - 1].block_hash

C2_Witness ==
    /\ ret.op = "append"
    /\ ret.status = "ok"
    /\ Len(tables[ret.kind]) = 3

\* C3: in every ledger (credit-score, transaction, simple demo, model) the
\* first block has previous_hash equal to the string of 64 zero characters.
C3_GenesisSentinelEverywhere ==
    \A t \in TableNames :
        tables[t] # <<>> => tables[t][1].previous_hash = GenesisSentinel

\* C4: with appends of several callers overlapping, no two persisted blocks of
\* a ledger have the same previous_hash.
C4_NoSharedPredecessor ==
    \A t \in {CreditTable, TransactionTable} :
        \A i, j \in DOMAIN tables[t] :
            i # j => tables[t][i].previous_hash # tables[t][j].previous_hash

\* C5: after one stored field of a persisted block was changed (a payload
\* field such as credit_score or amount, previous_hash, merkle_root, nonce,
\* timestamp), the next verify of that ledger reports
\* verified_blocks < total_blocks and valid=false.
C5_TamperDetected ==
    ( /\ IsVerifyResult
      /\ tampered.done
      /\ tampered.table = VerifiedTable(ret.kind)
      /\ tampered.column \in {"credit_score", "amount", "previous_hash",
                              "merkle_root", "nonce", "timestamp"} )
        => ( /\ ~ret.value.valid
             /\ ret.value.verified_blocks < ret.value.total_blocks )

\* C6: verify on an empty ledger returns verified_blocks=0, total_blocks=0,
\* integrity_score=1.0 and valid=true.
C6_EmptyLedgerVerify ==
    (IsVerifyResult /\ tables[VerifiedTable(ret.kind)] = <<>>)
        => ( /\ ret.value.verified_blocks = 0
             /\ ret.value.total_blocks = 0
             /\ ret.value.integrity_score = [num |-> 1, den |-> 1]
             /\ ret.value.valid = TRUE )

C6_Witness ==
    /\ IsVerifyResult
    /\ ret.kind \in {"transaction", "simple"}
    /\ tables[VerifiedTable(ret.kind)] = <<>>
    /\ tables[CreditTable] # <<>>

C8_AppendExtendsByOne ==
    [][ (ret'.op = "append" /\ ret'.status = "ok" /\ ret' # ret)
           => ( /\ Len(tables'[ret'.kind]) = Len(tables[ret'.kind]) + 1
                /\ Last(tables'[ret'.kind]).block_hash = ret'.value
                /\ tip_hash(tables'[ret'.kind], GenesisSentinel) = ret'.value
                /\ \A t \in TableNames \ {ret'.kind} : tables'[t] = tables[t] ) ]_vars

C8_Witness ==
    /\ ret.op = "append"
    /\ ret.status = "ok"
    /\ Len(tables[ret.kind]) >= 2
    /\ Last(tables[ret.kind]).block_hash = ret.value

\* C9: an append whose insert or commit fails ends in an error and leaves
\* every ledger with exactly the blocks it held before the call.
C9_FailedAppendChangesNothing ==
    [][ (ret'.op = "append" /\ ret'.status = "error") => tables' = tables ]_vars

C9_Witness ==
    /\ ret.op = "append"
    /\ ret.status = "error"
    /\ tables[ret.kind] # <<>>

\* C10: across append, verify, history, statistics and health-check calls every
\* persisted block stays in its ledger, unchanged and in the same order.
C10_AppendOnly ==
    [][ \A t \in TableNames : IsPrefix(tables[t], tables'[t]) ]_vars

C10_Witness ==
    /\ ret.op = "health"
    /\ Len(tables[CreditTable]) >= 1
    /\ Len(tables[TransactionTable]) >= 1
    /\ Len(verification_log) = 2

\* the ledger kinds of the registry
LedgerKinds == {"credit_score", "transaction", "model_version", "prediction_audit"}

C13_StatisticsPureRead ==
    [][ (ret'.op = "statistics" /\ ret' # ret)
           => ( /\ tables' = tables
                /\ verification_log' = verification_log
                /\ ret'.value.credit_blockchain.total_blocks = Len(tables'[CreditTable])
                /\ ret'.value.transaction_blockchain.total_blocks
                       = Len(tables'[TransactionTable]) ) ]_vars

C13_Witness ==
    /\ ret.op = "statistics"
    /\ ret.value.credit_blockchain.total_blocks = 2
    /\ ret.value.transaction_blockchain.total_blocks = 1
    /\ verification_log # <<>>

\* C14: whatever the stored blocks hold, tampered or malformed fields
\* included, a verify call returns a result and does not raise.
C14_VerifyNeverRaises ==
    ret.op = "verify" => ret.status = "ok"

\* a step of verify_blockchain_integrity: the only steps that leave ret a
\* verify result without moving the clock
IsVerifyStep == ret'.op = "verify" /\ clock' = clock

\* the newest VerificationRecord carries the pass ret' reports
LoggedPass ==
    /\ Len(verification_log') = Len(verification_log) + 1
    /\ Last(verification_log').blockchain_type = ret'.kind
    /\ Last(verification_log').total_blocks = ret'.value.total_blocks
    /\ Last(verification_log').verified_blocks = ret'.value.verified_blocks
    /\ Last(verification_log').integrity_score = ret'.value.integrity_score

\* C15 as stated: every verify pass of the registry, a pass over an empty
\* ledger included, persists exactly one VerificationRecord carrying the
\* pass's kind, total_blocks, verified_blocks and integrity_score, and no
\* operation changes or removes an existing record.
C15_EveryPassLogged ==
    [][ /\ IsPrefix(verification_log, verification_log')
        /\ IsVerifyStep => LoggedPass ]_vars

\* C15 as amended: a verify pass over a ledger with blocks persists exactly
\* one VerificationRecord carrying the pass's kind, total_blocks,
\* verified_blocks and integrity_score; a pass over an empty ledger persists
\* none; only verify passes add records, and no operation changes or removes
\* an existing record.
C15_NonEmptyPassLogged ==
    [][ /\ IsPrefix(verification_log, verification_log')
        /\ IsVerifyStep =>
               IF tables[table_map(ret'.kind)] = <<>>
               THEN verification_log' = verification_log
               ELSE LoggedPass
        /\ (ret'.op = "health" /\ clock' = clock) =>
               Len(verification_log') = Len(verification_log)
                   + Cardinality({ t \in {CreditTable, TransactionTable} : tables[t] # <<>> })
        /\ ret'.op \notin {"verify", "health"} => verification_log' = verification_log ]_vars

C15_Witness ==
    /\ ret.op = "verify"
    /\ ret.kind = "transaction"
    /\ ret.value.total_blocks = 1
    /\ Len(verification_log) = 2
    /\ Last(verification_log).blockchain_type = "transaction"
    /\ Last(verification_log).total_blocks = 1
    /\ verification_log[1].blockchain_type = "credit_score"

\* the string add_*_block handed to proof_of_work when it built block b
SealedString(kind, b) ==
    IF kind = "credit_score"
    THEN credit_block_json(b.user_id, b.credit_score, b.model_version,
             b.prediction_confidence, json_loads_list(b.risk_factors), b.previous_hash,
             isoformat(timestamp_key(b.timestamp))) \o b.merkle_root
    ELSE b.previous_hash \o b.transaction_hash \o b.merkle_root

\* proof_of_work gave up on block b: its nonce is past the cap
Exhausted(b) == b.nonce > max_nonce

StoredHashes(blocks) == { blocks[i].block_hash : i \in DOMAIN blocks }

\* previous_hash refers to a block of table t or is the genesis sentinel, and
\* refers to no block of another table
RefersToOwnKind(previous_hash, t) ==
    /\ previous_hash = GenesisSentinel \/ previous_hash \in StoredHashes(tables[t])
    /\ \A u \in TableNames \ {t} : previous_hash \notin StoredHashes(tables[u])

\* C17: with appends to the credit-score and the transaction ledger
\* interleaved in any order, a step that appends to one ledger leaves every
\* other ledger (its blocks, and so its tip) unchanged, and the previous_hash
\* of a new block, and of a block being built, is the hash of a block of its
\* own ledger or the genesis sentinel.
C17_KindsIndependent ==
    [][ /\ \A t \in TableNames :
               tables'[t] # tables[t] =>
                   /\ \A u \in TableNames \ {t} :
                          /\ tables'[u] = tables[u]
                          /\ tip_hash(tables'[u], GenesisSentinel)
                                 = tip_hash(tables[u], GenesisSentinel)
                   /\ Len(tables'[t]) = Len(tables[t]) + 1
                   /\ RefersToOwnKind(Last(tables'[t]).previous_hash, t)
        /\ \A w \in Workers :
               txn'[w] # Idle =>
                   RefersToOwnKind(txn'[w].values.previous_hash, txn'[w].table) ]_vars

C17_Witness ==
    /\ ret.op = "append"
    /\ ret.status = "ok"
    /\ ret.kind = CreditTable
    /\ Len(tables[CreditTable]) = 1
    /\ tables[TransactionTable] # <<>>
    /\ \E w \in Workers : txn[w] # Idle /\ txn[w].table = TransactionTable

\* the first index i > 1 whose previous_hash is not the stored hash of block
\* i - 1; 0 when every link holds
FirstBrokenLink(blocks) ==
    IF \E i \in 2..Len(blocks) : blocks[i].previous_hash # blocks[i - 1].block_hash
    THEN CHOOSE i \in 2..Len(blocks) :
             /\ blocks[i].previous_hash # blocks[i - 1].block_hash
             /\ \A j \in 2..(i - 1) : blocks[j].previous_hash = blocks[j - 1].block_hash
    ELSE 0

\* the hash check of one block, as the verify of ledger kind `kind` makes it
VerifiesAlone(kind, b) ==
    IF kind = "simple" THEN simple_block_verifies(b) ELSE verify_single_block(b, kind)

\* ret is the result of a verify that met a broken link
VerifyMetBrokenLink ==
    /\ IsVerifyResult
    /\ ret.kind \in {"credit_score", "transaction", "simple"}
    /\ FirstBrokenLink(tables[VerifiedTable(ret.kind)]) > 0

\* the hash checks tallied when the scan stops at the first broken link: those
\* of the blocks up to and including the block with the broken link
TallyUpToBreak ==
    LET blocks == tables[VerifiedTable(ret.kind)]
    IN  Cardinality({ j \in 1..FirstBrokenLink(blocks) : VerifiesAlone(ret.kind, blocks[j]) })

IsPowResult == ret.op = "proof_of_work"

\* C19: when proof_of_work finds a solution within the cap, the nonce n it
\* returns meets the difficulty target and no m with 0 <= m < n does.
C19_SmallestQualifyingNonce ==
    (IsPowResult /\ ret.value.nonce <= max_nonce)
        => ( /\ ret.value.nonce >= 0
             /\ hash_meets_target(ret.kind, ret.value.nonce)
             /\ \A m \in 0..(ret.value.nonce - 1) : ~hash_meets_target(ret.kind, m) )

C19_Witness ==
    /\ IsPowResult
    /\ ret.value.nonce = 2
    /\ hash_meets_target(ret.kind, 2)
    /\ ~hash_meets_target(ret.kind, 0)

\* no nonce meets the target for block_data: none of a whole period does
NoQualifyingNonce(block_data) ==
    \A m \in 0..(NoncePeriod - 1) : ~hash_meets_target(block_data, m)

\* C20: when no nonce up to the cap of one million meets the target,
\* proof_of_work returns the last nonce it tried, which equals the cap, and
\* has computed no more digests than the cap.
C20_ExhaustionReturnsCap ==
    (IsPowResult /\ NoQualifyingNonce(ret.kind))
        => ( /\ ret.value.nonce = max_nonce
             /\ ret.value.attempts <= max_nonce )

\* C21: proof_of_work terminates for every input and every difficulty, one no
\* digest satisfies included: every append call that has started eventually
\* ends, with its block persisted or with an error.
C21_AppendCompletes ==
    \A w \in Workers : (txn[w] # Idle) ~> (txn[w] = Idle)

C21_Witness ==
    \E w \in Workers :
        /\ txn[w].pc = "insert"
        /\ txn[w].target_zeros > 64
        /\ txn[w].values.nonce = max_nonce + 1
        /\ txn[w].attempts = max_nonce + 1

\* ret is what calculate_merkle_root returned for the list ret.kind
IsMerkleResult == ret.op = "calculate_merkle_root"

\* C22: calculate_merkle_root of the empty list is the digest of the empty
\* string, and of a one-element list [x] it is digest(x).
C22_MerkleBaseCases ==
    IsMerkleResult
        => ( /\ ret.kind = <<>> => ret.value = sha256("")
             /\ Len(ret.kind) = 1 => ret.value = sha256(ret.kind[1]) )

C22_Witness ==
    /\ IsMerkleResult
    /\ ret.kind = <<"b">>
    /\ ret.value = sha256("b")

\* one round of pairing: each adjacent left-to-right pair replaced by
\* digest(left || right), a last leaf without a partner paired with itself
PairUp(l) ==
    [k \in 1..((Len(l) + 1) \div 2) |->
        sha256(l[2 * k - 1] \o (IF 2 * k <= Len(l) THEN l[2 * k] ELSE l[2 * k - 1]))]

\* the one value that remains after repeated rounds of pairing
RECURSIVE PairwiseReduce(_)
PairwiseReduce(l) == IF Len(l) = 1 THEN l[1] ELSE PairwiseReduce(PairUp(l))

C24_OddListAsWithLastRepeated ==
    (IsMerkleResult /\ Len(ret.kind) >= 3 /\ Len(ret.kind) % 2 = 1)
        => ret.value = calculate_merkle_root(Append(ret.kind, Last(ret.kind)))

C24_Witness ==
    /\ IsMerkleResult
    /\ ret.kind = <<"a", "b", "c", "a", "b">>
    /\ ret.value = calculate_merkle_root(<<"a", "b", "c", "a", "b", "b">>)


\* every row of the table holds the digest of its own columns and is linked
\* to the row before it
SealedAndLinked(blocks) ==
    \A i \in DOMAIN blocks :
        /\ blocks[i].previous_hash = (IF i = 1 THEN GenesisSentinel ELSE blocks[i - 1].block_hash)
        /\ blocks[i] \in { model_version_row(SubSeq(blocks, 1, i - 1), blocks[i].nonce, t) : t \in Seconds }
                         \cup { prediction_audit_row(SubSeq(blocks, 1, i - 1), blocks[i].nonce, t) : t \in Seconds }

\* C25: verify of the model-version or prediction-audit kind counts every block
\* whose stored hash matches its fields as verified, so a ledger of these
\* kinds whose rows are as they were written gets integrity 1.0.
C25_UntamperedOtherKindsScoreOne ==
    (/\ ret.op = "verify"
     /\ ret.kind \in {"model_version", "prediction_audit"}
     /\ SealedAndLinked(tables[table_map(ret.kind)]))
        => /\ ret.value.valid
           /\ ret.value.integrity_score = ONE
           /\ ret.value.verified_blocks = Len(tables[table_map(ret.kind)])


\* every row after the first names the stored hash of the row before it
AllLinksHold(blocks) ==
    \A i \in 2..Len(blocks) : blocks[i].previous_hash = blocks[i - 1].block_hash

\* C26: whenever verify of a credit-score, transaction or simple ledger
\* returns valid = true, every block after the first has previous_hash equal
\* to the stored hash of the block before it.
C26_ValidImpliesLinked ==
    (/\ ret.op = "verify"
     /\ ret.kind \in {"credit_score", "transaction", "simple"}
     /\ ret.value.valid)
        => AllLinksHold(tables[VerifiedTable(ret.kind)])


\* C27: CreditModelBlockchain.verify_blockchain_integrity returns True when
\* the ledger is empty or every block's recomputed hash equals its stored
\* hash and every link holds; in particular a verify that follows a
\* successful add_model_block on a ledger written by add_model_block alone
\* returns True.
C27_ModelVerifyTrueAfterAppend ==
    [][ (/\ ret.op = "append" /\ ret.kind = ModelTable /\ ret.status = "ok"
         /\ ret'.op = "verify" /\ ret'.kind = "model")
            => ret'.value = TRUE ]_vars


\* C28: verify_blockchain_integrity with a kind name outside the four known
\* ones returns without raising; it reads the credit-score ledger and counts
\* none of its blocks as verified, so on a non-empty credit-score ledger it
\* returns valid = false with integrity 0 and appends one verification record
\* under the unknown kind name.
C28_UnknownKindReadsCreditLedger ==
    [][ (IsVerifyStep /\ ret'.kind = "unknown")
            => /\ ret'.status = "ok"
               /\ ret'.value.total_blocks = Len(tables[CreditTable])
               /\ ret'.value.verified_blocks = 0
               /\ tables' = tables
               /\ tables[CreditTable] # <<>>
                    => /\ ~ret'.value.valid
                       /\ ret'.value.integrity_score = [num |-> 0, den |-> 1]
                       /\ Len(verification_log') = Len(verification_log) + 1
                       /\ SubSeq(verification_log', 1, Len(verification_log)) = verification_log
                       /\ Last(verification_log').blockchain_type = "unknown"
                       /\ Last(verification_log').total_blocks = Len(tables[CreditTable])
                       /\ Last(verification_log').verified_blocks = 0 ]_vars

C28_Witness ==
    /\ ret.op = "verify"
    /\ ret.kind = "unknown"
    /\ Len(tables[CreditTable]) = 2
    /\ tables[TransactionTable] # <<>>
    /\ ret.value.total_blocks = 2
    /\ ~ret.value.valid
    /\ verification_log # <<>>
    /\ Last(verification_log).blockchain_type = "unknown"


IsHealthStep == ret'.op = "health" /\ clock' = clock

\* the kinds among credit_score and transaction whose ledger holds a block,
\* in the order the health check visits them
NonEmptyHealthKinds ==
    (IF tables[CreditTable] # <<>> THEN <<"credit_score">> ELSE <<>>)
        \o (IF tables[TransactionTable] # <<>> THEN <<"transaction">> ELSE <<>>)

DistinctHashes(blocks) ==
    \A i, j \in DOMAIN blocks : i # j => blocks[i].block_hash # blocks[j].block_hash

\* worker w's INSERT is executed in this step
IsInsertStepOf(w) == txn[w].pc = "insert" /\ txn'[w] = Idle

\* C30: the block_hash values of one ledger are pairwise distinct, and an
\* append whose computed hash is the hash of a persisted block of that ledger
\* fails at its INSERT and adds no block.
C30_HashesUniquePerLedger ==
    [][ /\ \A t \in TableNames : DistinctHashes(tables'[t])
        /\ \A w \in Workers :
               (/\ IsInsertStepOf(w)
                /\ txn[w].values.block_hash \in StoredHashes(tables[txn[w].table]))
                   => /\ tables' = tables
                      /\ ret'.op = "append"
                      /\ ret'.status = "error" ]_vars

C30_Witness ==
    /\ ret.op = "append"
    /\ ret.kind = TransactionTable
    /\ ret.status = "error"
    /\ ret.value = "sqlite3.IntegrityError"
    /\ Len(tables[TransactionTable]) = 1
    /\ \A w \in Workers : txn[w] = Idle

====
